---- MODULE Spec2Model ----
(***************************************************************************)
(* Model of dd_algorithms_lib (src/src/algorithms.rs): the two fair        *)
(* division operations and the XOR based random selection operations.      *)
(*                                                                         *)
(* The library is stateless: every public function reads caller supplied   *)
(* slices and writes a caller supplied output buffer.  A state of the model*)
(* is one finished call: the arguments, the buffer before and after the    *)
(* call, and how the call ended.  Each action is one public function,      *)
(* applied to arguments drawn from bounded sets.                           *)
(*                                                                         *)
(* Scaling.  i128 is modelled as a two's complement integer of Bits bits   *)
(* (the code uses 128), and the size up to which get_k_dd_rand_num uses    *)
(* the dense `used` array is DenseLimit (the code uses 1000).  All other   *)
(* numbers are the program's.                                              *)
(*                                                                         *)
(* Build profile.  Rust's unchecked +, * and unary - on i128 panic on      *)
(* overflow when overflow checks are compiled in (debug profile) and wrap  *)
(* when they are not (release profile).  Both are builds of this crate, so *)
(* `checks` is chosen nondeterministically per call.  Division by zero and *)
(* MIN / -1 panic in every build.                                          *)
(***************************************************************************)
EXTENDS Integers, Sequences, FiniteSets, TLC

VARIABLES
    pc,         \* "idle" before the call, "done" after it
    op,         \* the public function that was called
    checks,     \* TRUE: overflow checks compiled in (debug), FALSE: wrapping (release)
    values,     \* values: &[i128] (fair division) or &[u128] (get_one_dd_rand_num)
    weights,    \* weights: &[i128]
    groups,     \* groups: &[&[u128]]
    n,          \* n: usize
    k,          \* k: usize
    whitelist,  \* whitelist: &[usize]
    output0,    \* the caller's output buffer before the call
    output,     \* the caller's output buffer after the call
    res         \* how the call ended

vars == <<pc, op, checks, values, weights, groups, n, k, whitelist, output0, output, res>>

----------------------------------------------------------------------------
(* Bounds of the model *)

Bits == 9           \* width of the modelled i128
MaxLen == 3         \* longest values / weights / output slice of a fair division call
DenseLimit == 2     \* stands for the 1000 of `if n <= 1000`
KBound == 3         \* largest k of a well-formed selection call
ContribMax == 3     \* largest contributed u128 value
WlMax == 2          \* longest whitelist
OneLenMax == 4      \* longest values slice of get_one_dd_rand_num

(* Program constants *)

MaxParticipants == 100000
MaxSelections == 1000

----------------------------------------------------------------------------
(* i128 arithmetic *)

RECURSIVE Pow2(_)
Pow2(e) == IF e = 0 THEN 1 ELSE 2 * Pow2(e - 1)

Modulus == Pow2(Bits)
MaxInt == Pow2(Bits - 1) - 1
MinInt == -Pow2(Bits - 1)

InRange(x) == MinInt <= x /\ x <= MaxInt

\* two's complement wrap-around of an out-of-range result
Wrap(x) == ((x - MinInt) % Modulus) + MinInt

Abs(x) == IF x < 0 THEN -x ELSE x

\* Rust's `/` on integers truncates toward zero (b # 0)
TruncDiv(a, b) ==
    LET q == Abs(a) \div Abs(b)
    IN  IF (a < 0) # (b < 0) THEN -q ELSE q

\* `a / b` panics in every build when b = 0 or when a = MIN and b = -1
DivPanics(a, b) == b = 0 \/ (a = MinInt /\ b = -1)

\* Results of a call.  "Panic" is an unwinding panic, "Hang" a loop that never ends.
Ok == "Ok"
InvalidInput == "InvalidInput"
CalculationFailed == "CalculationFailed"
NotEnoughParticipants == "NotEnoughParticipants"
Panic == "Panic"
Hang == "Hang"

Errors == {InvalidInput, CalculationFailed, NotEnoughParticipants}

Ret(r, out) == [res |-> r, out |-> out]

\* `.iter().sum()` of i128: folds with `+` from 0, left to right.
\* v is the wrapped result, ovf says whether some addition overflowed.
RECURSIVE SumFrom(_, _, _, _)
SumFrom(s, i, acc, ovf) ==
    IF i > Len(s) THEN [v |-> acc, ovf |-> ovf]
    ELSE SumFrom(s, i + 1, Wrap(acc + s[i]), ovf \/ ~InRange(acc + s[i]))

IterSum(s) == SumFrom(s, 1, 0, FALSE)

\* `.zip(weights).map(|(&v, &w)| v * w).sum()`: each product, then each addition
RECURSIVE WeightedSumFrom(_, _, _, _, _)
WeightedSumFrom(vs, ws, i, acc, ovf) ==
    IF i > Len(vs) THEN [v |-> acc, ovf |-> ovf]
    ELSE LET p == vs[i] * ws[i]
             a == acc + Wrap(p)
         IN  WeightedSumFrom(vs, ws, i + 1, Wrap(a),
                             ovf \/ ~InRange(p) \/ ~InRange(a))

\* the scan for the highest bid: `if v > max_v` keeps the first occurrence
RECURSIVE MaxScan(_, _, _)
MaxScan(vs, i, max_index) ==
    IF i > Len(vs) THEN max_index
    ELSE IF vs[i] > vs[max_index] THEN MaxScan(vs, i + 1, i)
    ELSE MaxScan(vs, i + 1, max_index)

MaxIndex(vs) == MaxScan(vs, 1, 1)

\* `match (n.checked_mul(max_v), n.checked_mul(n))` and `checked_sub(sum_v)`:
\* TRUE when one of the three checked operations returns None
DeltaFails(nn, max_v, sum_v) ==
    \/ ~InRange(nn * max_v)
    \/ ~InRange(nn * nn)
    \/ ~InRange(nn * max_v - sum_v)

\* The allocation loop of calculate_fair_division_equal_weights and the final
\* `output[max_index] = -sum_others`.  A panic leaves the writes made so far.
RECURSIVE EqualLoop(_, _, _, _, _, _, _, _)
EqualLoop(vs, nn, delta, max_index, out, i, sum_others, chk) ==
    IF i > Len(vs)
    THEN IF ~InRange(-sum_others) /\ chk
         THEN Ret(Panic, out)
         ELSE Ret(Ok, [out EXCEPT ![max_index] = Wrap(-sum_others)])
    ELSE IF i # max_index
    THEN IF DivPanics(vs[i], nn)
         THEN Ret(Panic, out)
         ELSE LET share == TruncDiv(vs[i], nn) + delta
              IN  IF ~InRange(share) /\ chk
                  THEN Ret(Panic, out)
                  ELSE LET out1 == [out EXCEPT ![i] = Wrap(share)]
                           total == sum_others + Wrap(share)
                       IN  IF ~InRange(total) /\ chk
                           THEN Ret(Panic, out1)
                           ELSE EqualLoop(vs, nn, delta, max_index, out1,
                                          i + 1, Wrap(total), chk)
    ELSE EqualLoop(vs, nn, delta, max_index, [out EXCEPT ![i] = 0],
                   i + 1, sum_others, chk)

\* the checks that open calculate_fair_division_equal_weights: the error they
\* return, or "pass"
EqualValidationSwapped(vals, out) ==
    IF Len(vals) < 2
    THEN NotEnoughParticipants
    ELSE IF Len(out) # Len(vals)
    THEN InvalidInput
    ELSE "pass"

EqualValidation(vals, out) ==
    IF Len(vals) = 0 \/ Len(out) # Len(vals)
    THEN InvalidInput
    ELSE IF Len(vals) < 2
    THEN NotEnoughParticipants
    ELSE "pass"

\* calculate_fair_division_equal_weights with the output cleared before the
\* overflow-checked computation of delta
equal_weights_clearing_first(vals, out, chk) ==
    IF EqualValidation(vals, out) # "pass"
    THEN Ret(EqualValidation(vals, out), out)
    ELSE LET nn == Len(vals)
             s == IterSum(vals)
             max_index == MaxIndex(vals)
             max_v == vals[max_index]
             cleared == [i \in 1..Len(out) |-> 0]
         IN  IF s.ovf /\ chk
             THEN Ret(Panic, cleared)
             ELSE IF DeltaFails(nn, max_v, s.v)
             THEN Ret(CalculationFailed, cleared)
             ELSE EqualLoop(vals, nn, TruncDiv(nn * max_v - s.v, nn * nn),
                            max_index, cleared, 1, 0, chk)

calculate_fair_division_equal_weights(vals, out, chk) ==
    IF EqualValidation(vals, out) # "pass"
    THEN Ret(EqualValidation(vals, out), out)
    ELSE LET nn == Len(vals)
             s == IterSum(vals)
             max_index == MaxIndex(vals)
             max_v == vals[max_index]
         IN  IF s.ovf /\ chk
             THEN Ret(Panic, out)
             ELSE IF DeltaFails(nn, max_v, s.v)
             THEN Ret(CalculationFailed, out)
             ELSE IF DivPanics(nn * max_v - s.v, nn * nn)
             THEN Ret(Panic, out)
             ELSE EqualLoop(vals, nn, TruncDiv(nn * max_v - s.v, nn * nn),
                            max_index, out, 1, 0, chk)

\* WeightedLoop with the share not multiplied by the participant's weight
RECURSIVE WeightedLoopUnweighted(_, _, _, _, _, _, _, _, _)
WeightedLoopUnweighted(vs, ws, nn, delta, max_index, out, i, sum_others, chk) ==
    IF i > Len(vs)
    THEN IF ~InRange(-sum_others) /\ chk
         THEN Ret(Panic, out)
         ELSE Ret(Ok, [out EXCEPT ![max_index] = Wrap(-sum_others)])
    ELSE IF i # max_index
    THEN IF DivPanics(vs[i], nn)
         THEN Ret(Panic, out)
         ELSE LET per == TruncDiv(vs[i], nn) + delta
                  share == Wrap(per)
              IN  IF (~InRange(per) \/ ~InRange(share)) /\ chk
                  THEN Ret(Panic, out)
                  ELSE LET out1 == [out EXCEPT ![i] = Wrap(share)]
                           total == sum_others + Wrap(share)
                       IN  IF ~InRange(total) /\ chk
                           THEN Ret(Panic, out1)
                           ELSE WeightedLoopUnweighted(vs, ws, nn, delta, max_index, out1,
                                             i + 1, Wrap(total), chk)
    ELSE WeightedLoopUnweighted(vs, ws, nn, delta, max_index, [out EXCEPT ![i] = 0],
                      i + 1, sum_others, chk)

\* The allocation loop of calculate_fair_division_weighted:
\* `share = (v / n + delta) * weight`
RECURSIVE WeightedLoop(_, _, _, _, _, _, _, _, _)
WeightedLoop(vs, ws, nn, delta, max_index, out, i, sum_others, chk) ==
    IF i > Len(vs)
    THEN IF ~InRange(-sum_others) /\ chk
         THEN Ret(Panic, out)
         ELSE Ret(Ok, [out EXCEPT ![max_index] = Wrap(-sum_others)])
    ELSE IF i # max_index
    THEN IF DivPanics(vs[i], nn)
         THEN Ret(Panic, out)
         ELSE LET per == TruncDiv(vs[i], nn) + delta
                  share == Wrap(per) * ws[i]
              IN  IF (~InRange(per) \/ ~InRange(share)) /\ chk
                  THEN Ret(Panic, out)
                  ELSE LET out1 == [out EXCEPT ![i] = Wrap(share)]
                           total == sum_others + Wrap(share)
                       IN  IF ~InRange(total) /\ chk
                           THEN Ret(Panic, out1)
                           ELSE WeightedLoop(vs, ws, nn, delta, max_index, out1,
                                             i + 1, Wrap(total), chk)
    ELSE WeightedLoop(vs, ws, nn, delta, max_index, [out EXCEPT ![i] = 0],
                      i + 1, sum_others, chk)

\* WeightedValidation rejecting negative weights only
WeightedValidationNegativeOnly(vals, ws, out) ==
    IF \/ Len(vals) = 0
       \/ Len(ws) = 0
       \/ Len(vals) # Len(ws)
       \/ Len(out) # Len(vals)
    THEN InvalidInput
    ELSE IF Len(vals) < 2
    THEN NotEnoughParticipants
    ELSE IF \E i \in 1..Len(ws) : ws[i] < 0
    THEN InvalidInput
    ELSE "pass"

\* the checks that open calculate_fair_division_weighted: the error they return,
\* or "pass"
WeightedValidation(vals, ws, out) ==
    IF \/ Len(vals) = 0
       \/ Len(ws) = 0
       \/ Len(vals) # Len(ws)
       \/ Len(out) # Len(vals)
    THEN InvalidInput
    ELSE IF Len(vals) < 2
    THEN NotEnoughParticipants
    ELSE IF \E i \in 1..Len(ws) : ws[i] <= 0
    THEN InvalidInput
    ELSE "pass"

calculate_fair_division_weighted(vals, ws, out, chk) ==
    IF WeightedValidation(vals, ws, out) # "pass"
    THEN Ret(WeightedValidation(vals, ws, out), out)
    ELSE LET total_weight == IterSum(ws)
             nn == total_weight.v
             s == WeightedSumFrom(vals, ws, 1, 0, FALSE)
             max_index == MaxIndex(vals)
             max_v == vals[max_index]
         IN  IF (total_weight.ovf \/ s.ovf) /\ chk
             THEN Ret(Panic, out)
             ELSE IF DeltaFails(nn, max_v, s.v)
             THEN Ret(CalculationFailed, out)
             ELSE IF DivPanics(nn * max_v - s.v, nn * nn)
             THEN Ret(Panic, out)
             ELSE WeightedLoop(vals, ws, nn, TruncDiv(nn * max_v - s.v, nn * nn),
                               max_index, out, 1, 0, chk)

----------------------------------------------------------------------------
(* u128 / usize arithmetic of the random selection operations *)

\* a ^ b, bit by bit
RECURSIVE Xor(_, _)
Xor(a, b) ==
    IF a = 0 THEN b
    ELSE IF b = 0 THEN a
    ELSE (((a % 2) + (b % 2)) % 2) + 2 * Xor(a \div 2, b \div 2)

\* a & b, bit by bit
RECURSIVE BitAnd(_, _)
BitAnd(a, b) ==
    IF a = 0 \/ b = 0 THEN 0
    ELSE ((a % 2) * (b % 2)) + 2 * BitAnd(a \div 2, b \div 2)

\* XorValues with the contributions added instead of XOR-ed
RECURSIVE XorValuesAdding(_, _, _)
XorValuesAdding(vals, i, result) ==
    IF i > Len(vals) THEN result
    ELSE XorValuesAdding(vals, i + 1, result + vals[i])

\* `for i in 0..n { result ^= values[i] }`
RECURSIVE XorValues(_, _, _)
XorValues(vals, i, result) ==
    IF i > Len(vals) THEN result
    ELSE XorValues(vals, i + 1, Xor(result, vals[i]))

\* `for group in groups { result ^= group[i] }`
RECURSIVE XorSlot(_, _, _, _)
XorSlot(gs, slot, g, result) ==
    IF g > Len(gs) THEN result
    ELSE XorSlot(gs, slot, g + 1, Xor(result, gs[g][slot]))

\* `(result % n_u128) as usize` for output slot `slot` (slots count from 1 here)
SlotOffset(gs, slot, nn) == XorSlot(gs, slot, 1, 0) % nn

get_one_dd_rand_num(vals, nn, out) ==
    IF Len(vals) = 0 \/ nn = 0
    THEN Ret(InvalidInput, out)
    ELSE IF Len(vals) # nn
    THEN Ret(InvalidInput, out)
    ELSE IF BitAnd(nn, nn - 1) # 0
    THEN Ret(InvalidInput, out)
    ELSE Ret(Ok, XorValues(vals, 1, 0))

\* SelectionInvalid without the power-of-two check
SelectionInvalidAnyN(gs, nn, kk, out) ==
    IF Len(gs) = 0 \/ nn = 0 \/ kk = 0 THEN TRUE
    ELSE IF nn > MaxParticipants \/ kk > MaxSelections THEN TRUE
    ELSE IF kk > nn THEN TRUE
    ELSE IF Len(gs) # nn THEN TRUE
    ELSE IF Len(out) # kk THEN TRUE
    ELSE \E g \in 1..Len(gs) : Len(gs[g]) # kk

\* the checks that open get_k_dd_rand_num, in the order of the code
SelectionInvalid(gs, nn, kk, out) ==
    IF Len(gs) = 0 \/ nn = 0 \/ kk = 0 THEN TRUE
    ELSE IF nn > MaxParticipants \/ kk > MaxSelections THEN TRUE
    ELSE IF BitAnd(nn, nn - 1) # 0 THEN TRUE
    ELSE IF kk > nn THEN TRUE
    ELSE IF Len(gs) # nn THEN TRUE
    ELSE IF Len(out) # kk THEN TRUE
    ELSE \E g \in 1..Len(gs) : Len(gs[g]) # kk

\* marker of a probe that found no index
NoIndex == -1

\* `let mut used = [false; 1000]`, as far as the dense branch can index it
NoneUsed == [j \in 0..(DenseLimit - 1) |-> FALSE]

\* DenseProbe that does not move off_t
RECURSIVE DenseProbeStanding(_, _, _, _)
DenseProbeStanding(used, off_t, nn, advances) ==
    IF ~used[off_t] THEN off_t
    ELSE IF advances + 1 >= nn THEN NoIndex
    ELSE DenseProbeStanding(used, off_t, nn, advances + 1)

\* `while used[off_t] { off_t = (off_t + 1) % n; }`: the loop has no counter; when
\* all n entries are set it visits them for ever, which the model reports as NoIndex
RECURSIVE DenseProbe(_, _, _, _)
DenseProbe(used, off_t, nn, advances) ==
    IF ~used[off_t] THEN off_t
    ELSE IF advances + 1 >= nn THEN NoIndex
    ELSE DenseProbe(used, (off_t + 1) % nn, nn, advances + 1)

\* DenseSlots that never marks the index it emits
RECURSIVE DenseSlotsUnmarked(_, _, _, _, _, _)
DenseSlotsUnmarked(gs, nn, kk, i, used, out) ==
    IF i > kk THEN Ret(Ok, out)
    ELSE LET off_t == DenseProbe(used, SlotOffset(gs, i, nn), nn, 0)
         IN  IF off_t = NoIndex
             THEN Ret(Hang, out)
             ELSE DenseSlotsUnmarked(gs, nn, kk, i + 1, used, [out EXCEPT ![i] = off_t])

\* slots i..k of the dense branch of get_k_dd_rand_num
RECURSIVE DenseSlots(_, _, _, _, _, _)
DenseSlots(gs, nn, kk, i, used, out) ==
    IF i > kk THEN Ret(Ok, out)
    ELSE LET off_t == DenseProbe(used, SlotOffset(gs, i, nn), nn, 0)
         IN  IF off_t = NoIndex
             THEN Ret(Hang, out)
             ELSE DenseSlots(gs, nn, kk, i + 1, [used EXCEPT ![off_t] = TRUE],
                             [out EXCEPT ![i] = off_t])

\* Emitted with the scan stopping one slot early
EmittedButLast(out, prior, off_t) == \E j \in 1..(prior - 1) : out[j] = off_t

\* `for j in 0..i { if output[j] == off_t { found = true; break; } }`
\* (prior: the number of slots already written)
Emitted(out, prior, off_t) == \E j \in 1..prior : out[j] = off_t

\* ScanProbe stepping backward
RECURSIVE ScanProbeBackward(_, _, _, _, _)
ScanProbeBackward(out, prior, off_t, nn, advances) ==
    IF ~Emitted(out, prior, off_t) THEN off_t
    ELSE IF advances + 1 >= nn THEN NoIndex
    ELSE ScanProbeBackward(out, prior, (off_t + nn - 1) % nn, nn, advances + 1)

\* the `loop` of the large-n branch of get_k_dd_rand_num: no counter either
RECURSIVE ScanProbe(_, _, _, _, _)
ScanProbe(out, prior, off_t, nn, advances) ==
    IF ~Emitted(out, prior, off_t) THEN off_t
    ELSE IF advances + 1 >= nn THEN NoIndex
    ELSE ScanProbe(out, prior, (off_t + 1) % nn, nn, advances + 1)

\* slots i..k of the large-n branch of get_k_dd_rand_num
RECURSIVE ScanSlots(_, _, _, _, _)
ScanSlots(gs, nn, kk, i, out) ==
    IF i > kk THEN Ret(Ok, out)
    ELSE LET off_t == ScanProbe(out, i - 1, SlotOffset(gs, i, nn), nn, 0)
         IN  IF off_t = NoIndex
             THEN Ret(Hang, out)
             ELSE ScanSlots(gs, nn, kk, i + 1, [out EXCEPT ![i] = off_t])

get_k_dd_rand_num(gs, nn, kk, out) ==
    IF SelectionInvalid(gs, nn, kk, out)
    THEN Ret(InvalidInput, out)
    ELSE LET first_offset == SlotOffset(gs, 1, nn)
             out1 == [out EXCEPT ![1] = first_offset]
         IN  IF nn <= DenseLimit
             THEN DenseSlots(gs, nn, kk, 2, [NoneUsed EXCEPT ![first_offset] = TRUE], out1)
             ELSE ScanSlots(gs, nn, kk, 2, out1)

is_whitelisted(idx, wl) == \E j \in 1..Len(wl) : wl[j] = idx

\* MarkWhitelist that marks nothing
MarkWhitelistSkipped(used, wl) == used

\* `for &w in whitelist { used[w] = true; }`
MarkWhitelist(used, wl) == [j \in DOMAIN used |-> used[j] \/ is_whitelisted(j, wl)]

\* DenseProbeCounted giving up one probe early
RECURSIVE DenseProbeCountedShort(_, _, _, _)
DenseProbeCountedShort(used, off_t, nn, tries) ==
    IF ~used[off_t] THEN off_t
    ELSE IF tries + 1 >= nn - 1 THEN NoIndex
    ELSE DenseProbeCountedShort(used, (off_t + 1) % nn, nn, tries + 1)

\* `while used[off_t] { off_t = (off_t + 1) % n; tries += 1; if tries >= n { return Err } }`
RECURSIVE DenseProbeCounted(_, _, _, _)
DenseProbeCounted(used, off_t, nn, tries) ==
    IF ~used[off_t] THEN off_t
    ELSE IF tries + 1 >= nn THEN NoIndex
    ELSE DenseProbeCounted(used, (off_t + 1) % nn, nn, tries + 1)

\* slots i..k of the dense branch of get_k_dd_rand_num_with_whitelist
RECURSIVE DenseSlotsWhitelist(_, _, _, _, _, _)
DenseSlotsWhitelist(gs, nn, kk, i, used, out) ==
    IF i > kk THEN Ret(Ok, out)
    ELSE LET off_t == DenseProbeCounted(used, SlotOffset(gs, i, nn), nn, 0)
         IN  IF off_t = NoIndex
             THEN Ret(CalculationFailed, out)
             ELSE DenseSlotsWhitelist(gs, nn, kk, i + 1, [used EXCEPT ![off_t] = TRUE],
                                      [out EXCEPT ![i] = off_t])

\* ScanProbeCounted giving up one probe early
RECURSIVE ScanProbeCountedShort(_, _, _, _, _, _)
ScanProbeCountedShort(out, prior, wl, off_t, nn, tries) ==
    IF ~Emitted(out, prior, off_t) /\ ~is_whitelisted(off_t, wl) THEN off_t
    ELSE IF tries + 1 >= nn - 1 THEN NoIndex
    ELSE ScanProbeCountedShort(out, prior, wl, (off_t + 1) % nn, nn, tries + 1)

\* the `loop` of the large-n path of get_k_dd_rand_num_with_whitelist; for the
\* first slot prior = 0 and only the whitelist is looked at
RECURSIVE ScanProbeCounted(_, _, _, _, _, _)
ScanProbeCounted(out, prior, wl, off_t, nn, tries) ==
    IF ~Emitted(out, prior, off_t) /\ ~is_whitelisted(off_t, wl) THEN off_t
    ELSE IF tries + 1 >= nn THEN NoIndex
    ELSE ScanProbeCounted(out, prior, wl, (off_t + 1) % nn, nn, tries + 1)

\* slots i..k of the large-n path of get_k_dd_rand_num_with_whitelist
RECURSIVE ScanSlotsWhitelist(_, _, _, _, _, _)
ScanSlotsWhitelist(gs, nn, kk, wl, i, out) ==
    IF i > kk THEN Ret(Ok, out)
    ELSE LET off_t == ScanProbeCounted(out, i - 1, wl, SlotOffset(gs, i, nn), nn, 0)
         IN  IF off_t = NoIndex
             THEN Ret(CalculationFailed, out)
             ELSE ScanSlotsWhitelist(gs, nn, kk, wl, i + 1, [out EXCEPT ![i] = off_t])

get_k_dd_rand_num_with_whitelist(gs, nn, kk, wl, out) ==
    IF SelectionInvalid(gs, nn, kk, out)
    THEN Ret(InvalidInput, out)
    ELSE IF \E j \in 1..Len(wl) : wl[j] >= nn
    THEN Ret(InvalidInput, out)
    ELSE IF nn <= DenseLimit
    THEN DenseSlotsWhitelist(gs, nn, kk, 1, MarkWhitelist(NoneUsed, wl), out)
    ELSE ScanSlotsWhitelist(gs, nn, kk, wl, 1, out)

----------------------------------------------------------------------------
(* Arguments of the fair division calls *)

\* bids: both extremes of the integer range, small bids of both signs, and
\* bids that divide without remainder by small populations
FairValues == {MinInt, -8, -1, 0, 1, 8, MaxInt}

\* bids of the weighted calls
WeightedValues == {MinInt, -1, 0, 24, MaxInt}

\* weights: a negative one, zero, small positive ones and the largest
FairWeights == {-1, 0, 1, 2, 3, MaxInt}

\* a caller's buffer of l elements holding earlier content
Buffer(l) == [i \in 1..l |-> 7]

\* weight vectors of length l: the constant ones, and those with one entry changed
WeightVectors(l) ==
    {[i \in 1..l |-> IF i = j THEN w ELSE c] :
        j \in 1..(IF l = 0 THEN 1 ELSE l), w \in FairWeights, c \in FairWeights}

\* the slices of length at most l over the set S
SlicesUpTo(l, S) == UNION {[1..m -> S] : m \in 0..l}

\* arguments of calculate_fair_division_equal_weights
EqualArgs(vs, lo) == [values |-> vs, output0 |-> Buffer(lo)]

\* arguments of calculate_fair_division_weighted whose three lengths agree
WeightedShaped(vs, ws) == [values |-> vs, weights |-> ws, output0 |-> Buffer(Len(vs))]

\* arguments of calculate_fair_division_weighted with the given lengths
WeightedAnyShape(lv, lw, lo) ==
    [values |-> [i \in 1..lv |-> 8], weights |-> [i \in 1..lw |-> 1],
     output0 |-> Buffer(lo)]

----------------------------------------------------------------------------
(* Arguments of the random selection calls *)

\* a caller's index buffer of l elements holding earlier content
IndexBuffer(l) == [i \in 1..l |-> 9]

\* what group g contributes to slot i when it is not chosen freely
Contribution(g, i) == (g * i) % (ContribMax + 1)

\* gl groups; group g has gk + extra[g] entries; the first group contributes a
\* where it can, every other entry is Contribution(g, i)
Groups(gl, gk, a, extra) ==
    [g \in 1..gl |->
        [i \in 1..(gk + extra[g]) |->
            IF g = 1 /\ i <= Len(a) THEN a[i] ELSE Contribution(g, i)]]

\* a well-formed selection: n groups of k entries, the first group contributing a
SelectionShaped(nn, a) ==
    [groups |-> Groups(nn, Len(a), a, [g \in 1..nn |-> 0]), n |-> nn, k |-> Len(a),
     output0 |-> IndexBuffer(Len(a))]

\* a selection of any shape: gl groups of gk entries, group `odd` with d more
SelectionAnyShape(nn, kk, gl, gk, odd, d, lo) ==
    [groups |-> Groups(gl, gk, <<>>, [g \in 1..gl |-> IF g = odd THEN d ELSE 0]),
     n |-> nn, k |-> kk, output0 |-> IndexBuffer(lo)]

\* the n and k of the selections of any shape: inside and outside their limits
AnyN == {0, 1, 2, 3, 4, 131072}
AnyK == {0, 1, 2, 3, 1001}

\* whitelists for a selection among nn: every sequence up to WlMax of indices up
\* to nn (nn itself is out of range)
Whitelists(nn) == SlicesUpTo(WlMax, 0..nn)

----------------------------------------------------------------------------
(* The calls *)

Init ==
    /\ pc = "idle"
    /\ op = "none"
    /\ checks = FALSE
    /\ values = <<>>
    /\ weights = <<>>
    /\ groups = <<>>
    /\ n = 0
    /\ k = 0
    /\ whitelist = <<>>
    /\ output0 = <<>>
    /\ output = <<>>
    /\ res = "none"

\* calculate_fair_division_equal_weights applied to the arguments a
EqualWeights(a, chk) ==
    LET r == calculate_fair_division_equal_weights(a.values, a.output0, chk)
    IN  /\ pc' = "done"
        /\ op' = "equal_weights"
        /\ checks' = chk
        /\ values' = a.values
        /\ output0' = a.output0
        /\ output' = r.out
        /\ res' = r.res
        /\ UNCHANGED <<weights, groups, n, k, whitelist>>

\* every bid vector up to MaxLen, with an output buffer of every length up to MaxLen
CallEqualWeights ==
    /\ pc = "idle"
    /\ \E vs \in SlicesUpTo(MaxLen, FairValues), lo \in 0..MaxLen, chk \in BOOLEAN :
          EqualWeights(EqualArgs(vs, lo), chk)

\* calculate_fair_division_weighted applied to the arguments a
Weighted(a, chk) ==
    LET r == calculate_fair_division_weighted(a.values, a.weights, a.output0, chk)
    IN  /\ pc' = "done"
        /\ op' = "weighted"
        /\ checks' = chk
        /\ values' = a.values
        /\ weights' = a.weights
        /\ output0' = a.output0
        /\ output' = r.out
        /\ res' = r.res
        /\ UNCHANGED <<groups, n, k, whitelist>>

\* the calls whose lengths agree, with every bid vector and weight vector, and
\* the calls of every combination of lengths
CallWeighted ==
    /\ pc = "idle"
    /\ \/ \E vs \in SlicesUpTo(MaxLen, WeightedValues), chk \in BOOLEAN :
            \E ws \in WeightVectors(Len(vs)) : Weighted(WeightedShaped(vs, ws), chk)
       \/ \E lv \in 0..MaxLen, lw \in 0..MaxLen, lo \in 0..MaxLen, chk \in BOOLEAN :
            Weighted(WeightedAnyShape(lv, lw, lo), chk)

\* every contribution vector up to OneLenMax, with every n up to one more
CallGetOne ==
    /\ pc = "idle"
    /\ \E vs \in SlicesUpTo(OneLenMax, 0..ContribMax), nn \in 0..(OneLenMax + 1) :
        LET r == get_one_dd_rand_num(vs, nn, 7)
        IN  /\ pc' = "done"
            /\ op' = "get_one"
            /\ values' = vs
            /\ n' = nn
            /\ output0' = 7
            /\ output' = r.out
            /\ res' = r.res
    /\ UNCHANGED <<checks, weights, groups, k, whitelist>>

\* get_k_dd_rand_num applied to the arguments a
GetK(a) ==
    LET r == get_k_dd_rand_num(a.groups, a.n, a.k, a.output0)
    IN  /\ pc' = "done"
        /\ op' = "get_k"
        /\ groups' = a.groups
        /\ n' = a.n
        /\ k' = a.k
        /\ output0' = a.output0
        /\ output' = r.out
        /\ res' = r.res
        /\ UNCHANGED <<checks, values, weights, whitelist>>

\* the well-formed selections among 1, 2 and 4 with every choice of the first
\* group's contributions, and the selections of every shape
CallGetK ==
    /\ pc = "idle"
    /\ \/ \E nn \in {1, 2, 4}, a \in SlicesUpTo(KBound, 0..ContribMax) :
            Len(a) >= 1 /\ GetK(SelectionShaped(nn, a))
       \/ \E nn \in AnyN, kk \in AnyK, gl \in 0..4, gk \in 0..3 :
            \E odd \in {1, 4}, d \in {0, 1}, lo \in 0..4 :
                GetK(SelectionAnyShape(nn, kk, gl, gk, odd, d, lo))

\* get_k_dd_rand_num_with_whitelist applied to the arguments a and the whitelist wl
GetKWithWhitelist(a, wl) ==
    LET r == get_k_dd_rand_num_with_whitelist(a.groups, a.n, a.k, wl, a.output0)
    IN  /\ pc' = "done"
        /\ op' = "get_k_with_whitelist"
        /\ groups' = a.groups
        /\ n' = a.n
        /\ k' = a.k
        /\ whitelist' = wl
        /\ output0' = a.output0
        /\ output' = r.out
        /\ res' = r.res
        /\ UNCHANGED <<checks, values, weights>>

\* the well-formed selections with every whitelist, the selections of every
\* shape with an empty whitelist and with a whitelist of one entry
CallGetKWithWhitelist ==
    /\ pc = "idle"
    /\ \/ \E nn \in {1, 2, 4}, a \in SlicesUpTo(KBound, 0..ContribMax) :
            \E wl \in Whitelists(nn) :
                Len(a) >= 1 /\ GetKWithWhitelist(SelectionShaped(nn, a), wl)
       \/ \E nn \in AnyN, kk \in AnyK, gl \in 0..4, gk \in 0..3 :
            \E odd \in {1, 4}, d \in {0, 1}, lo \in 0..4, wl \in {<<>>, <<0>>} :
                GetKWithWhitelist(SelectionAnyShape(nn, kk, gl, gk, odd, d, lo), wl)

\* the contributions of the example programs' single random number
ExampleValues == <<100, 200, 300, 400, 500>>

\* group1, group2, group3 of the example programs
ExampleGroups == <<<<100, 200, 300>>, <<150, 250, 350>>, <<120, 220, 320>>>>

\* `get_one_dd_rand_num(&values, values.len(), &mut result)` of the example
\* programs, with `result = 0u128`
ExampleGetOne ==
    /\ pc = "idle"
    /\ LET r == get_one_dd_rand_num(ExampleValues, Len(ExampleValues), 0)
       IN  /\ pc' = "done"
           /\ op' = "get_one"
           /\ values' = ExampleValues
           /\ n' = Len(ExampleValues)
           /\ output0' = 0
           /\ output' = r.out
           /\ res' = r.res
    /\ UNCHANGED <<checks, weights, groups, k, whitelist>>

\* `get_k_dd_rand_num(&groups, 3, 3, &mut selected)` of the example programs,
\* with `selected = [0usize; 3]`
ExampleGetK ==
    /\ pc = "idle"
    /\ GetK([groups |-> ExampleGroups, n |-> 3, k |-> 3, output0 |-> <<0, 0, 0>>])

NextFair == CallEqualWeights \/ CallWeighted

NextRand ==
    \/ CallGetOne
    \/ CallGetK
    \/ CallGetKWithWhitelist
    \/ ExampleGetOne
    \/ ExampleGetK

Next == NextFair \/ NextRand

\* the fair division calls
SpecFair == Init /\ [][NextFair]_vars

\* the random selection calls
SpecRand == Init /\ [][NextRand]_vars

Spec == Init /\ [][Next]_vars

----------------------------------------------------------------------------
(* Vocabulary of the claims *)

FairOps == {"equal_weights", "weighted"}

Done == pc = "done"

\* the sum of a sequence of integers, in unbounded arithmetic
RECURSIVE SeqSum(_)
SeqSum(s) == IF s = <<>> THEN 0 ELSE Head(s) + SeqSum(Tail(s))

\* the arguments pass the validation of the fair division call that was made
FairValid ==
    /\ op \in FairOps
    /\ Len(values) >= 2
    /\ Len(output0) = Len(values)
    /\ op = "weighted" =>
        /\ Len(weights) = Len(values)
        /\ \A i \in 1..Len(weights) : weights[i] > 0

\* Every intermediate value of the call that was made, in unbounded arithmetic:
\* the running sums of the weights, the products values[i]*weights[i] and their
\* running sums, n*maxV, n*n, the numerator, each share and what it is built
\* from, the running sums of the other shares and the final negation.
\* Only used where FairValid holds (so the population is positive).
ExactIntermediates ==
    LET m == Len(values)
        ws == IF op = "weighted" THEN weights ELSE [i \in 1..m |-> 1]
        nn == SeqSum(ws)
        prods == [i \in 1..m |-> values[i] * ws[i]]
        sum_v == SeqSum(prods)
        mi == MaxIndex(values)
        delta == TruncDiv(nn * values[mi] - sum_v, nn * nn)
        per == [i \in 1..m |-> TruncDiv(values[i], nn) + delta]
        share == [i \in 1..m |-> IF i = mi THEN 0 ELSE per[i] * ws[i]]
    IN  {SeqSum(SubSeq(ws, 1, j)) : j \in 1..m}
          \cup {prods[i] : i \in 1..m}
          \cup {SeqSum(SubSeq(prods, 1, j)) : j \in 1..m}
          \cup {nn * values[mi], nn * nn, nn * values[mi] - sum_v}
          \cup {per[i] : i \in 1..m \ {mi}}
          \cup {SeqSum(SubSeq(share, 1, j)) : j \in 1..m}
          \cup {share[i] : i \in 1..m}
          \cup {-SeqSum(share)}

----------------------------------------------------------------------------
(* C1: whenever a fair division call returns Ok, the allocations written to
   the output buffer sum to exactly zero. *)
C1_ZeroSum ==
    (Done /\ op \in FairOps /\ res = Ok) => SeqSum(output) = 0

(* C2: in a fair division call that passes validation, an intermediate value
   that does not fit the integer width makes the call return
   CalculationFailed. *)
C2_OverflowReported ==
    (Done /\ FairValid /\ \E q \in ExactIntermediates : ~InRange(q))
        => res = CalculationFailed

\* the weighted call that was made gave every participant the same weight
ConstantWeights ==
    /\ op = "weighted"
    /\ FairValid
    /\ \A i \in 1..Len(weights) : weights[i] = weights[1]

\* with population nn and weighted total sum_v, neither v / n nor the division
\* that yields delta has a remainder
DivisionsExact(vs, nn, sum_v) ==
    /\ \A i \in 1..Len(vs) : i # MaxIndex(vs) => vs[i] % nn = 0
    /\ (nn * vs[MaxIndex(vs)] - sum_v) % (nn * nn) = 0

\* the truncating divisions of the weighted call and of the equal-weight call
\* on the same bids lose nothing (only used where ConstantWeights holds)
Lossless ==
    /\ DivisionsExact(values, Len(values) * weights[1], weights[1] * SeqSum(values))
    /\ DivisionsExact(values, Len(values), SeqSum(values))

\* the equal-weight call on the bids of the weighted call that was made
EqualOnSameBids == calculate_fair_division_equal_weights(values, output0, checks)

(* C3, as stated: with constant weights c and lossless divisions, the weighted
   allocation is the equal-weight allocation multiplied by c element-wise. *)
C3_ScaledByC ==
    (Done /\ ConstantWeights /\ Lossless /\ res = Ok /\ EqualOnSameBids.res = Ok)
        => output = [i \in 1..Len(values) |-> weights[1] * EqualOnSameBids.out[i]]

(* C3, amended: with constant weights c, lossless divisions and every
   intermediate value of the weighted call inside the integer range, both
   calls return Ok and the weighted allocation is the equal-weight allocation
   itself, element-wise. *)
C3_SameAllocation ==
    (Done /\ ConstantWeights /\ Lossless /\ \A q \in ExactIntermediates : InRange(q))
        => /\ res = Ok
           /\ EqualOnSameBids.res = Ok
           /\ output = EqualOnSameBids.out

C3_Witness ==
    /\ Done /\ ConstantWeights /\ Lossless
    /\ \A q \in ExactIntermediates : InRange(q)
    /\ weights[1] = 3
    /\ res = Ok
    /\ \E i \in 1..Len(output) : output[i] # 0

(* C9: a fair division call that returns an error leaves every element of
   the caller's output buffer as it was before the call. *)
C9_ErrorLeavesOutput ==
    (Done /\ op \in FairOps /\ res \in Errors) => output = output0

C9_Witness ==
    /\ Done /\ op = "equal_weights"
    /\ res = CalculationFailed
    /\ Len(output0) = 3
    /\ output = output0

(* C10: calculate_fair_division_equal_weights returns InvalidInput when
   values is empty or the output length differs, otherwise
   NotEnoughParticipants on a single value, and neither of the two with at
   least two values and a matching output. *)
C10_EqualValidation ==
    (Done /\ op = "equal_weights") =>
        IF Len(values) = 0 \/ Len(output0) # Len(values)
        THEN res = InvalidInput
        ELSE IF Len(values) = 1
        THEN res = NotEnoughParticipants
        ELSE res \notin {InvalidInput, NotEnoughParticipants}

C10_Witness ==
    /\ Done /\ op = "equal_weights"
    /\ Len(values) = 1 /\ Len(output0) = 1
    /\ res = NotEnoughParticipants

----------------------------------------------------------------------------
(* Vocabulary of the selection claims *)

SelectionOps == {"get_k", "get_k_with_whitelist"}

\* the entries of a sequence are pairwise distinct
Distinct(q) == \A i, j \in 1..Len(q) : i # j => q[i] # q[j]

\* x is 1, 2, 4, ... (up to the first power above MaxParticipants)
IsPowerOfTwo(x) == \E e \in 0..17 : x = Pow2(e)

\* the distinct whitelisted indices
Whitelisted == {whitelist[j] : j \in 1..Len(whitelist)}

\* a constraint of the selection call that was made is violated
ConstraintViolated ==
    \/ Len(groups) = 0
    \/ n = 0
    \/ k = 0
    \/ n > 100000
    \/ k > 1000
    \/ k > n
    \/ ~IsPowerOfTwo(n)
    \/ Len(groups) # n
    \/ \E g \in 1..Len(groups) : Len(groups[g]) # k
    \/ Len(output0) # k
    \/ (op = "get_k_with_whitelist" /\ \E w \in Whitelisted : w >= n)

\* bit b of x
Bit(x, b) == (x \div Pow2(b)) % 2

\* the number whose bit b is the parity of the number of values with bit b set,
\* for the bits b..top
RECURSIVE ParityWord(_, _, _)
ParityWord(vals, b, top) ==
    IF b > top THEN 0
    ELSE (Cardinality({i \in 1..Len(vals) : Bit(vals[i], b) = 1}) % 2) * Pow2(b)
            + ParityWord(vals, b + 1, top)

Reorderings(l) == {f \in [1..l -> 1..l] : \A i, j \in 1..l : i # j => f[i] # f[j]}

(* C4: whenever get_k_dd_rand_num returns Ok the output holds exactly k
   indices, each below n, pairwise distinct. *)
C4_DistinctIndices ==
    (Done /\ op = "get_k" /\ res = Ok) =>
        /\ Len(output) = k
        /\ \A i \in 1..k : output[i] \in 0..(n - 1)
        /\ Distinct(output)

C4_Witness ==
    /\ Done /\ op = "get_k" /\ res = Ok
    /\ n > DenseLimit
    /\ k = 3
    /\ SlotOffset(groups, 1, n) = SlotOffset(groups, 2, n)
    /\ SlotOffset(groups, 3, n) = output[2]

(* C5: whenever get_k_dd_rand_num_with_whitelist returns Ok, no output index
   is on the whitelist, and the k indices are below n and pairwise distinct. *)
C5_WhitelistAvoided ==
    (Done /\ op = "get_k_with_whitelist" /\ res = Ok) =>
        /\ Len(output) = k
        /\ \A i \in 1..k : output[i] \in 0..(n - 1) /\ output[i] \notin Whitelisted
        /\ Distinct(output)

C5_Witness ==
    /\ Done /\ op = "get_k_with_whitelist" /\ res = Ok
    /\ n = 4 /\ k = 3
    /\ whitelist = <<0>>
    /\ SlotOffset(groups, 1, n) = 0

(* C6: a get_k_dd_rand_num_with_whitelist call that passes validation returns
   CalculationFailed exactly when k plus the number of distinct whitelisted
   indices exceeds n, and then no admissible index is left; otherwise it
   returns Ok.  It never panics and never loops for ever. *)
C6_Exhaustion ==
    (Done /\ op = "get_k_with_whitelist" /\ ~ConstraintViolated) =>
        LET free == (0..(n - 1)) \ Whitelisted
        IN  /\ res \in {Ok, CalculationFailed}
            /\ res = CalculationFailed <=> k + Cardinality(Whitelisted) > n
            /\ res = CalculationFailed =>
                    {output[j] : j \in 1..Cardinality(free)} = free

C6_Witness ==
    /\ Done /\ op = "get_k_with_whitelist" /\ ~ConstraintViolated
    /\ n = 4 /\ k = 3
    /\ Cardinality(Whitelisted) = 2
    /\ res = CalculationFailed

(* C7: both selection operations return InvalidInput exactly when a
   constraint is violated. *)
C7_InvalidInput ==
    (Done /\ op \in SelectionOps) => (res = InvalidInput <=> ConstraintViolated)

C7_Witness ==
    /\ Done /\ op = "get_k"
    /\ n = 3 /\ k = 2
    /\ Len(groups) = 3
    /\ \A g \in 1..3 : Len(groups[g]) = 2
    /\ Len(output0) = 2
    /\ res = InvalidInput

(* C8: on valid input get_one_dd_rand_num writes the bitwise XOR of all
   values, and writes the same for every permutation of values. *)
C8_XorOrderIndependent ==
    (Done /\ op = "get_one" /\ res = Ok) =>
        /\ output = ParityWord(values, 0, ContribMax)
        /\ \A f \in Reorderings(Len(values)) :
              LET r == get_one_dd_rand_num([i \in 1..Len(values) |-> values[f[i]]],
                                           n, output0)
              IN  r.res = Ok /\ r.out = output

C8_Witness ==
    /\ Done /\ op = "get_one" /\ res = Ok
    /\ n = 4
    /\ values[1] # values[2]
    /\ output # 0

----------------------------------------------------------------------------
(* Further claims about the fair division calls *)

\* the lengths of values, weights and output of the weighted call disagree
LengthsDisagree == Len(values) # Len(weights) \/ Len(output0) # Len(values)

\* some weight of the weighted call is zero or negative
SomeWeightNotPositive == \E i \in 1..Len(weights) : weights[i] <= 0

(* C11, as stated: calculate_fair_division_weighted returns InvalidInput when
   some weight is <= 0, when weights is empty or when the lengths of values,
   weights and output disagree, whatever the number of participants. *)
C11_AlwaysInvalidInput ==
    (Done /\ op = "weighted"
          /\ (SomeWeightNotPositive \/ Len(weights) = 0 \/ LengthsDisagree))
        => res = InvalidInput

(* C11, amended: calculate_fair_division_weighted returns InvalidInput when
   values or weights is empty or the three lengths disagree; otherwise, with a
   single participant, it returns NotEnoughParticipants whatever the weight;
   otherwise, with at least two participants, it returns InvalidInput exactly
   when some weight is <= 0. *)
C11_WeightedValidation ==
    (Done /\ op = "weighted") =>
        IF Len(values) = 0 \/ Len(weights) = 0 \/ LengthsDisagree
        THEN res = InvalidInput
        ELSE IF Len(values) = 1
        THEN res = NotEnoughParticipants
        ELSE /\ res # NotEnoughParticipants
             /\ res = InvalidInput <=> SomeWeightNotPositive

C11_Witness ==
    /\ Done /\ op = "weighted"
    /\ Len(values) = 3 /\ Len(weights) = 3 /\ Len(output0) = 3
    /\ weights[1] > 0 /\ weights[2] = 0 /\ weights[3] > 0
    /\ res = InvalidInput

----------------------------------------------------------------------------
(* The example programs *)

\* the call that was made is the example programs' get_one_dd_rand_num call
ExampleGetOneCalled ==
    Done /\ op = "get_one" /\ values = ExampleValues /\ n = 5

\* the call that was made is the example programs' get_k_dd_rand_num call
ExampleGetKCalled ==
    Done /\ op = "get_k" /\ groups = ExampleGroups /\ n = 3 /\ k = 3

(* C12: the random selection calls of the example programs, get_one_dd_rand_num
   on the five values with n = 5 and get_k_dd_rand_num on three groups of three
   values with n = 3 and k = 3, return Ok, so that their unwrap() does not fail. *)
C12_ExampleCallsOk ==
    (ExampleGetOneCalled \/ ExampleGetKCalled) => res = Ok

----------------------------------------------------------------------------
(* The allocation rule of the equal-weight call *)

\* the first index that holds the largest of the values
FirstMaximum(vs) ==
    CHOOSE i \in 1..Len(vs) :
        /\ \A j \in 1..Len(vs) : vs[j] <= vs[i]
        /\ \A j \in 1..(i - 1) : vs[j] < vs[i]

(* C13: whenever calculate_fair_division_equal_weights returns Ok, with n the
   number of values, maxIndex the first index holding the maximum and
   delta = (n*maxV - sumV) / (n*n) truncated toward zero, every other index i
   holds values[i] / n + delta and maxIndex holds minus the sum of the other
   outputs. *)
C13_EqualAllocation ==
    (Done /\ op = "equal_weights" /\ res = Ok) =>
        LET m == Len(values)
            maxIndex == FirstMaximum(values)
            delta == TruncDiv(m * values[maxIndex] - SeqSum(values), m * m)
            others == (1..m) \ {maxIndex}
        IN  /\ \A i \in others : output[i] = TruncDiv(values[i], m) + delta
            /\ output[maxIndex] =
                    -SeqSum([i \in 1..m |-> IF i = maxIndex THEN 0 ELSE output[i]])

----------------------------------------------------------------------------
(* The selection rule of get_k_dd_rand_num *)

\* what the groups contribute to slot i
SlotContributions(i) == [g \in 1..Len(groups) |-> groups[g][i]]

\* the XOR over all groups of group[i], reduced modulo n
OffsetOf(i) == ParityWord(SlotContributions(i), 0, ContribMax) % n

\* the indices written to the slots before slot i
Before(i) == {output[j] : j \in 1..(i - 1)}

\* the displacement of slot i: how far output[i] lies forward of its offset
Displacement(i) == (output[i] + n - OffsetOf(i)) % n

(* C14: for every valid input, get_k_dd_rand_num writes to the first slot the
   XOR over all groups of group[0], modulo n, and to every later slot i the
   index (offset_i + d) mod n, where d >= 0 is the smallest displacement whose
   index is not among the earlier outputs. *)
C14_LinearProbing ==
    (Done /\ op = "get_k" /\ ~ConstraintViolated /\ res = Ok) =>
        /\ output[1] = OffsetOf(1)
        /\ \A i \in 2..k :
              \E d \in 0..(n - 1) :
                  /\ output[i] = (OffsetOf(i) + d) % n
                  /\ output[i] \notin Before(i)
                  /\ \A e \in 0..(d - 1) : (OffsetOf(i) + e) % n \in Before(i)

C14_Witness ==
    /\ Done /\ op = "get_k" /\ ~ConstraintViolated /\ res = Ok
    /\ n = 4 /\ k = 3
    /\ \A i \in 1..3 : OffsetOf(i) = 3
    /\ output = <<3, 0, 1>>

----------------------------------------------------------------------------
(* The two ways of tracking the indices already taken *)

\* the flags of the indices below nn, none set
Unused(nn) == [j \in 0..(nn - 1) |-> FALSE]

\* the branch with the array of flags, run on the arguments of the call that
\* was made whatever their n
DenseStrategy ==
    IF op = "get_k"
    THEN LET first_offset == SlotOffset(groups, 1, n)
         IN  DenseSlots(groups, n, k, 2, [Unused(n) EXCEPT ![first_offset] = TRUE],
                        [output0 EXCEPT ![1] = first_offset])
    ELSE DenseSlotsWhitelist(groups, n, k, 1, MarkWhitelist(Unused(n), whitelist),
                             output0)

\* the branch that scans the emitted indices, run on the same arguments
ScanStrategy ==
    IF op = "get_k"
    THEN ScanSlots(groups, n, k, 2, [output0 EXCEPT ![1] = SlotOffset(groups, 1, n)])
    ELSE ScanSlotsWhitelist(groups, n, k, whitelist, 1, output0)

(* C15: on the arguments of every selection call that passes validation, the
   branch with the array of flags and the branch that scans the emitted
   indices end the same way and write the same output, which is what the call
   returned and wrote. *)
C15_StrategiesAgree ==
    (Done /\ op \in SelectionOps /\ ~ConstraintViolated) =>
        /\ DenseStrategy = ScanStrategy
        /\ DenseStrategy = Ret(res, output)

C15_Witness ==
    /\ Done /\ op = "get_k_with_whitelist" /\ ~ConstraintViolated
    /\ n = 4 /\ k = 3
    /\ whitelist = <<1, 2>>
    /\ res = CalculationFailed
    /\ output[1] = 3 /\ output[2] = 0 /\ output[3] = output0[3]
    /\ DenseStrategy = ScanStrategy

----------------------------------------------------------------------------
(* Termination of get_k_dd_rand_num *)

(* C16: every get_k_dd_rand_num call that passes validation ends with Ok, and
   the probe of each slot advances at most as many times as there are slots
   before it. *)
C16_ProbesTerminate ==
    (Done /\ op = "get_k" /\ ~ConstraintViolated) =>
        /\ res = Ok
        /\ \A i \in 1..k : Displacement(i) <= i - 1

C16_Witness ==
    /\ Done /\ op = "get_k" /\ ~ConstraintViolated
    /\ n = 2 /\ k = 2
    /\ res = Ok
    /\ Displacement(2) = 1

----------------------------------------------------------------------------
(* The selection with an empty whitelist *)

(* C17: get_k_dd_rand_num_with_whitelist called with an empty whitelist
   returns what get_k_dd_rand_num returns on the same groups, n, k and output,
   and writes the same output; and the other way round. *)
C17_EmptyWhitelistSame ==
    /\ (Done /\ op = "get_k_with_whitelist" /\ whitelist = <<>>) =>
            get_k_dd_rand_num(groups, n, k, output0) = Ret(res, output)
    /\ (Done /\ op = "get_k") =>
            get_k_dd_rand_num_with_whitelist(groups, n, k, <<>>, output0)
                = Ret(res, output)

C17_Witness ==
    /\ Done /\ op = "get_k_with_whitelist" /\ whitelist = <<>>
    /\ n = 2 /\ k = 2
    /\ res = Ok
    /\ OffsetOf(1) = 1 /\ OffsetOf(2) = 1
    /\ output = <<1, 0>>
    /\ get_k_dd_rand_num(groups, n, k, output0).out = <<1, 0>>

====
